---- MODULE Spec2Model ----
(***************************************************************************)
(* Model of the input shaper of RepRapFirmware (AxisShaper): M593          *)
(* configuration (AxisShaper::Configure), per-move planning                *)
(* (AxisShaper::PlanShaping) and segment generation.                       *)
(*                                                                         *)
(* Numbers.  The firmware computes in single-precision floats.  The model  *)
(* computes in integers, every quantity in a fixed unit, every product and *)
(* quotient rounded towards zero:                                          *)
(*   dimensionless (coefficients, zeta, k)   units of 1/U      (1e-5)      *)
(*   time in seconds (durations)             units of 1/StepClockRate s    *)
(*   time in step clocks                     clocks                        *)
(*   speed                                   um/s                          *)
(*   acceleration                            um/s^2                        *)
(*   distance                                nm                            *)
(*   fraction of total distance              units of 1/FracScale (1e-6)   *)
(*   frequency                               Hz                            *)
(* A duration in seconds and the same duration in step clocks are the same *)
(* integer, so "seconds * StepClockRate" leaves the integer unchanged.     *)
(* The b and c parameters of a segment (the step-time law) are not         *)
(* modelled: nothing in the shaper reads them back.                        *)
(***************************************************************************)
EXTENDS Integers, Sequences, FiniteSets, TLC

VARIABLES
    shaper,     \* the AxisShaper object (fields of class AxisShaper)
    reply,      \* how the last Configure ended
    configures, \* the number of Configure calls so far
    log,        \* the M593 commands run so far, each with the object on entry
                \* and on return and how the call ended
    call,       \* the PlanShaping call whose move is prepared, or Idle
    dda,        \* the move that call prepared (DDA), or NoMove
    params,     \* the caller's BasicPrepParams after that call
    plan        \* the InputShaperPlan that call returned

vars == <<shaper, reply, configures, log, call, dda, params, plan>>

----------------------------------------------------------------------------
(* Exact integer arithmetic that stays inside TLC's 32-bit integers *)

\* the largest integer TLC computes with
MaxInt == 2147483647 + 0

Abs(x) == IF x < 0 THEN 0 - x ELSE x

Sgn(x) == IF x < 0 THEN 0 - 1 ELSE 1

\* the digit base for multiplying modulo d: (2*base - 1) * d <= MaxInt
DigitBase(d) ==
    IF d <= 262000 THEN 4096 ELSE IF d <= 4200000 THEN 256 ELSE IF d <= 69000000 THEN 16 ELSE 2

\* <<q, r>> with a*b = q*d + r and 0 <= r < d, for a, b >= 0, d > 0,
\* b taken digit by digit in base base
RECURSIVE MulQR(_, _, _, _)
MulQR(a, b, d, base) ==
    IF b = 0 THEN <<0, 0>>
    ELSE CHOOSE qr \in
            { LET t == base * h[2] + (b % base) * (a % d)
              IN  <<base * h[1] + (b % base) * (a \div d) + (t \div d), t % d>>
              : h \in {MulQR(a, b \div base, d, base)} } : TRUE

\* x*y/d rounded down for x, y >= 0, d > 0
MulDivAbs(x, y, d) ==
    IF x = 0 \/ y = 0 THEN 0
    ELSE IF x <= MaxInt \div y THEN (x * y) \div d
    ELSE MulQR(x, y, d, DigitBase(d))[1]

\* a*b/d rounded towards zero, a, b of either sign, d > 0
MulDiv(a, b, d) == Sgn(a) * Sgn(b) * MulDivAbs(Abs(a), Abs(b), d)

\* Newton's iteration for the integer square root of x*m from the guess y >= it
RECURSIVE SqrtNewton(_, _, _)
SqrtNewton(y, x, m) ==
    CHOOSE r \in { IF z >= y THEN y ELSE SqrtNewton(z, x, m)
                   : z \in {(y + MulDiv(x, m, y)) \div 2} } : TRUE

----------------------------------------------------------------------------
(* Units and program constants *)

U == 100 * 1000

FracScale == 1000 * 1000

StepClockRate == 750000

Pi == 314159

MaxExtraImpulses == 4

DefaultFrequency == 40

DefaultDamping == 10000

DefaultMinimumAcceleration == 10000

SUPPORT_DAA == TRUE

\* the value of a float that nothing has assigned yet
Indeterminate == 0 - 1

\* float values that are no number, kept apart from every number of the model
Inf == MaxInt

NegInf == 0 - MaxInt

NaN == 0 - MaxInt - 1

IsFinite(x) == x > NegInf /\ x < Inf

TypeNames == {"none", "daa", "zvd", "zvdd", "ei2", "ei3", "custom"}

\* InputShaperType::IsValid of a type built from a name
IsValid(name) == name \in TypeNames

\* fsquare(x) for a dimensionless x
fsquare(x) == MulDiv(x, x, U)

\* fastSqrtf(x) for a dimensionless x in 0..U
fastSqrtf(x) == IF x <= 0 THEN 0 ELSE SqrtNewton(U, x, U)

\* exp(-n) for whole n, in units of 1/U
ExpNegWhole(n) ==
    IF n >= 12 THEN 0
    ELSE <<100000, 36788, 13534, 4979, 1832, 674, 248, 91, 34, 12, 5, 2>>[n + 1]

\* the series 1 - f/i * (1 - f/(i+1) * (1 - ...)) for 0 <= f < U, ten factors deep
RECURSIVE ExpSeries(_, _)
ExpSeries(f, i) ==
    IF i > 10 THEN U
    ELSE CHOOSE r \in { U - MulDiv(f, t, U) \div i : t \in {ExpSeries(f, i + 1)} } : TRUE

\* expf(-x) for a dimensionless x >= 0
expfNeg(x) ==
    CHOOSE r \in { MulDiv(ExpNegWhole(v \div U), ExpSeries(v % U, 1), U) : v \in {x} } : TRUE

----------------------------------------------------------------------------
(* AxisShaper::AxisShaper and AxisShaper::Configure (M593) *)

\* a parameter letter that the command does not carry
NoArg == 0 - 1

RECURSIVE SeqSum(_)
SeqSum(s) == IF s = <<>> THEN 0 ELSE Head(s) + SeqSum(Tail(s))

\* arr with entries 1..Len(vals) overwritten by vals
Store(arr, vals) ==
    [i \in 1..MaxExtraImpulses |-> IF i <= Len(vals) THEN vals[i] ELSE arr[i]]

\* the object as the constructor leaves it
Constructed ==
    [ numExtraImpulses |-> 0,
      frequency |-> DefaultFrequency,
      zeta |-> DefaultDamping,
      minimumAcceleration |-> DefaultMinimumAcceleration,
      type |-> "none",
      coefficients |-> [i \in 1..MaxExtraImpulses |-> Indeterminate],
      durations |-> [i \in 1..MaxExtraImpulses |-> Indeterminate],
      totalDuration |-> Indeterminate,
      clocksLostAtStart |-> Indeterminate,
      clocksLostAtEnd |-> Indeterminate,
      totalShapingClocks |-> Indeterminate,
      overlappedCoefficients |-> [i \in 1..(2 * MaxExtraImpulses) |-> Indeterminate],
      overlappedAverageAcceleration |-> Indeterminate ]

\* frequency limits of Configure, tested on a frequency in whole Hz
FrequencyInRange(f) == f * (2 * 65535) >= StepClockRate /\ f <= 1000

\* damping limits of Configure
DampingInRange(z) == z >= 0 /\ z <= 99000

\* the F, L and S parameters: <<object, seen, thrown>>
ReadFLS(sh, cmd) ==
    LET fBad == cmd.F # NoArg /\ ~FrequencyInRange(cmd.F)
        s1 == IF cmd.F # NoArg /\ ~fBad THEN [sh EXCEPT !.frequency = cmd.F] ELSE sh
        s2 == IF cmd.L # NoArg
              THEN [s1 EXCEPT !.minimumAcceleration = IF cmd.L > 1000 THEN cmd.L ELSE 1000]
              ELSE s1
        sBad == cmd.S # NoArg /\ ~DampingInRange(cmd.S)
        s3 == IF cmd.S # NoArg /\ ~sBad THEN [s2 EXCEPT !.zeta = cmd.S] ELSE s2
    IN  IF fBad THEN <<sh, FALSE, TRUE>>
        ELSE IF sBad THEN <<s2, TRUE, TRUE>>
        ELSE <<s3, cmd.F # NoArg \/ cmd.L # NoArg \/ cmd.S # NoArg, FALSE>>

\* the type a command without P leaves, given that F, L or S was seen
DefaultType(t) == IF t = "none" THEN (IF SUPPORT_DAA THEN "daa" ELSE "zvd") ELSE t

\* a0 + a1*zeta + a2*zeta^2 + a3*zeta^3 with the a's and zeta dimensionless
Poly3(a0, a1, a2, a3, zeta, zetaSquared, zetaCubed) ==
    a0 + MulDiv(a1, zeta, U) + MulDiv(a2, zetaSquared, U) + MulDiv(a3, zetaCubed, U)

\* x/dampedFrequency in seconds, x dimensionless, dampedFrequency in Hz/U
OverDamped(x, dampedFrequency) == MulDiv(x, StepClockRate, dampedFrequency)

\* the zvd coefficients 1/j and 1/j + 2k/j
ZvdImpulses(k, j) == <<MulDiv(U, U, j), MulDiv(U, U, j) + MulDiv(2 * k, U, j)>>

ZvdCoefficients(k) == ZvdImpulses(k, U + 2 * k + fsquare(k))

\* the zvdd coefficients 1/j, 1/j + 3k/j and 1/j + 3k/j + 3k^2/j
ZvddImpulses(k, j) ==
    << MulDiv(U, U, j),
       MulDiv(U, U, j) + MulDiv(3 * k, U, j),
       MulDiv(U, U, j) + MulDiv(3 * k, U, j) + MulDiv(3 * fsquare(k), U, j) >>

ZvddCoefficients(k) ==
    ZvddImpulses(k, U + 3 * (k + fsquare(k)) + MulDiv(k, fsquare(k), U))

Ei2Coefficients(z, z2, z3) ==
    << Poly3(16054, 76699, 226560, 0 - 122750, z, z2, z3),
       Poly3(16054 + 33911, 76699 + 45081, 226560 - 258080, 0 - 122750 + 173650, z, z2, z3),
       Poly3(16054 + 33911 + 34089, 76699 + 45081 - 61533,
             226560 - 258080 - 68765, 0 - 122750 + 173650 + 42261, z, z2, z3) >>

Ei2Durations(z, z2, z3, df) ==
    << OverDamped(Poly3(49890, 16270, 0 - 54262, 616180, z, z2, z3), df),
       OverDamped(Poly3(99748 - 49890, 18382 - 16270, 0 - 158270 + 54262, 817120 - 616180,
                        z, z2, z3), df),
       OverDamped(Poly3(149920 - 99748, 0 - 9297 - 18382, 0 - 28338 + 158270, 185710 - 817120,
                        z, z2, z3), df) >>

Ei3Coefficients(z, z2, z3) ==
    << Poly3(11275, 76632, 329160, 0 - 144380, z, z2, z3),
       Poly3(11275 + 23698, 76632 + 61164, 329160 - 257850, 0 - 144380 + 485220, z, z2, z3),
       Poly3(11275 + 23698 + 30008, 76632 + 61164 - 19062,
             329160 - 257850 - 214560, 0 - 144380 + 485220 + 13744, z, z2, z3),
       Poly3(11275 + 23698 + 30008 + 23775, 76632 + 61164 - 19062 - 73297,
             329160 - 257850 - 214560 + 46885, 0 - 144380 + 485220 + 13744 - 208650,
             z, z2, z3) >>

Ei3Durations(z, z2, z3, df) ==
    << OverDamped(Poly3(49974, 23834, 44559, 1247200, z, z2, z3), df),
       OverDamped(Poly3(99849 - 49974, 29808 - 23834, 0 - 236460 - 44559, 2339900 - 1247200,
                        z, z2, z3), df),
       OverDamped(Poly3(149870 - 99849, 10306 - 29808, 0 - 201390 + 236460, 1703200 - 2339900,
                        z, z2, z3), df),
       OverDamped(Poly3(199960 - 149870, 0 - 28231 - 10306, 61536 + 201390, 540450 - 1703200,
                        z, z2, z3), df) >>

\* the switch on the type, given sqrtOneMinusZetaSquared:
\* <<object, ended>> with ended one of "", "error", "exception"
SetImpulsesFor(sh, cmd, sqrtOneMinusZetaSquared) ==
    LET dampedFrequency == sh.frequency * sqrtOneMinusZetaSquared
        k == expfNeg(MulDiv(MulDiv(sh.zeta, Pi, U), U, sqrtOneMinusZetaSquared))
        half == OverDamped(U \div 2, dampedFrequency)
        zetaSquared == fsquare(sh.zeta)
        zetaCubed == MulDiv(fsquare(sh.zeta), sh.zeta, U)
    IN  CASE sh.type = "none" -> <<[sh EXCEPT !.numExtraImpulses = 0], "">>
          [] sh.type = "custom" ->
                IF cmd.H = <<>> THEN <<sh, "exception">>
                ELSE IF cmd.T = <<>>
                THEN <<[sh EXCEPT
                          !.coefficients = Store(@, cmd.H),
                          !.durations = Store(@, [i \in 1..Len(cmd.H) |->
                                                   StepClockRate \div (2 * sh.frequency)]),
                          !.numExtraImpulses = Len(cmd.H)], "">>
                ELSE IF Len(cmd.T) # Len(cmd.H)
                THEN <<[sh EXCEPT !.coefficients = Store(@, cmd.H),
                                  !.durations = Store(@, cmd.T),
                                  !.type = "none"], "error">>
                ELSE <<[sh EXCEPT !.coefficients = Store(@, cmd.H),
                                  !.durations = Store(@, cmd.T),
                                  !.numExtraImpulses = Len(cmd.H)], "">>
          [] sh.type = "daa" ->
                <<[sh EXCEPT !.durations = Store(@, <<OverDamped(U, dampedFrequency)>>),
                             !.numExtraImpulses = 0], "">>
          [] sh.type = "zvd" ->
                <<[sh EXCEPT !.coefficients = Store(@, ZvdCoefficients(k)),
                             !.durations = Store(@, <<half, half>>),
                             !.numExtraImpulses = 2], "">>
          [] sh.type = "zvdd" ->
                <<[sh EXCEPT !.coefficients = Store(@, ZvddCoefficients(k)),
                             !.durations = Store(@, <<half, half, half>>),
                             !.numExtraImpulses = 3], "">>
          [] sh.type = "ei2" ->
                <<[sh EXCEPT !.coefficients =
                                 Store(@, Ei2Coefficients(sh.zeta, zetaSquared, zetaCubed)),
                             !.durations =
                                 Store(@, Ei2Durations(sh.zeta, zetaSquared, zetaCubed,
                                                       dampedFrequency)),
                             !.numExtraImpulses = 3], "">>
          [] sh.type = "ei3" ->
                <<[sh EXCEPT !.coefficients =
                                 Store(@, Ei3Coefficients(sh.zeta, zetaSquared, zetaCubed)),
                             !.durations =
                                 Store(@, Ei3Durations(sh.zeta, zetaSquared, zetaCubed,
                                                       dampedFrequency)),
                             !.numExtraImpulses = 4], "">>

\* the switch on the type: <<object, ended>>
SetImpulses(sh, cmd) == SetImpulsesFor(sh, cmd, fastSqrtf(U - fsquare(sh.zeta)))

\* the number of impulses the loop over the durations adds up: the loop runs
\* while i < numExtraImpulses - 1, the difference taken as a signed number
ImpulsesSummed(n) == IF n - 1 > 0 THEN n - 1 ELSE 0

\* totalDuration and the clocks lost at the start and at the end
SetTotals(sh) ==
    LET m == ImpulsesSummed(sh.numExtraImpulses)
        totalDuration == SeqSum([i \in 1..m |-> sh.durations[i]])
        tLostAtStart == SeqSum([i \in 1..m |-> MulDiv(U - sh.coefficients[i], sh.durations[i], U)])
        tLostAtEnd == SeqSum([i \in 1..m |-> MulDiv(sh.coefficients[i], sh.durations[i], U)])
    IN  [sh EXCEPT !.totalDuration = totalDuration,
                   !.clocksLostAtStart = tLostAtStart,
                   !.clocksLostAtEnd = tLostAtEnd,
                   !.totalShapingClocks = totalDuration]

\* entry i (from 0) of the table for shaping the start and then at once the end
OverlappedVal(sh, i) ==
    IF i < sh.numExtraImpulses THEN sh.coefficients[i + 1]
    ELSE U - sh.coefficients[i - sh.numExtraImpulses + 1]

\* maxVal after the loop has seen vals, starting from acc
RECURSIVE MaxValOver(_, _)
MaxValOver(vals, acc) ==
    IF vals = <<>> THEN acc
    ELSE MaxValOver(Tail(vals), IF acc > Head(vals) THEN Head(vals) ELSE acc)

\* x * (1.0/maxVal) in floats
Scaled(x, maxVal) ==
    IF maxVal = 0
    THEN (IF x > 0 THEN Inf ELSE IF x < 0 THEN NegInf ELSE NaN)
    ELSE Sgn(maxVal) * MulDiv(x, U, Abs(maxVal))

\* x/n + n in floats, n a count
AveragePlusCount(x, n) ==
    IF ~IsFinite(x) THEN x
    ELSE IF n = 0 THEN (IF x > 0 THEN Inf ELSE IF x < 0 THEN NegInf ELSE NaN)
    ELSE x \div n + n * U

\* the overlapped coefficients and their average
SetOverlapped(sh) ==
    LET n == sh.numExtraImpulses
        vals == [i \in 1..(2 * n) |-> OverlappedVal(sh, i - 1)]
        maxVal == MaxValOver(vals, 0)
        totalAcceleration == Scaled(SeqSum(vals), maxVal)
    IN  [sh EXCEPT
           !.overlappedCoefficients =
               [i \in 1..(2 * MaxExtraImpulses) |->
                   IF i <= 2 * n THEN Scaled(vals[i], maxVal) ELSE @[i]],
           !.overlappedAverageAcceleration = AveragePlusCount(totalAcceleration, n)]

\* Configure from the totals on, imp being what the switch on the type gave:
\* the object afterwards, the result, and whether reprap.MoveUpdated() was called
ConfigureTotals(imp) ==
    IF imp[2] # "" THEN [shaper |-> imp[1], result |-> imp[2], moveUpdated |-> FALSE]
    ELSE [shaper |-> SetOverlapped(SetTotals(imp[1])), result |-> "ok", moveUpdated |-> TRUE]

\* Configure from the P parameter on, fls being what reading F, L and S gave
ConfigureType(fls, cmd) ==
    IF fls[3] THEN [shaper |-> fls[1], result |-> "exception", moveUpdated |-> FALSE]
    ELSE IF cmd.P # "" /\ ~IsValid(cmd.P)
    THEN [shaper |-> fls[1], result |-> "error", moveUpdated |-> FALSE]
    ELSE IF ~(fls[2] \/ cmd.P # "")
    THEN [shaper |-> fls[1], result |-> "ok", moveUpdated |-> FALSE]
    ELSE ConfigureTotals(SetImpulses(IF cmd.P # "" THEN [fls[1] EXCEPT !.type = cmd.P]
                                     ELSE [fls[1] EXCEPT !.type = DefaultType(@)],
                                     cmd))

\* Configure on object sh with command cmd
ConfigureResult(sh, cmd) == ConfigureType(ReadFLS(sh, cmd), cmd)

----------------------------------------------------------------------------
(* The move (DDA), its prepare parameters (BasicPrepParams) and the plan *)

NoMove == "no move"

NoParams == "no params"

NoPlan == "no plan"

\* InputShaperPlan as its constructor clears it
ClearedPlan ==
    [ shapeAccelStart |-> FALSE, shapeAccelEnd |-> FALSE,
      shapeDecelStart |-> FALSE, shapeDecelEnd |-> FALSE,
      accelSegments |-> 0, decelSegments |-> 0 ]

\* the test PlanShaping makes of the previous move
PreviousAllowsShaping(d) ==
    (d.prevState # "frozen" /\ d.prevState # "executing") \/ ~d.prevWasAccelOnlyMove

\* the test PlanShaping makes of the next move
NextAllowsShaping(d) ==
    d.nextState # "provisional" \/ ~d.nextIsDecelerationMove

\* (v - u) * StepClockRate / a: the clocks to change speed by v - u at acceleration a
ClocksFor(dv, a) == MulDiv(dv, StepClockRate, a)

\* (v^2 - u^2)/(2a): the distance to go from speed u to speed v at acceleration a
DistanceFor(u, v, a) == MulDiv((v + u) * 500, v - u, a)

\* the distance covered in t clocks at the speed v2/2
SpeedTime(v2, t) == MulDiv(v2 * 500, t, StepClockRate)

\* the speed gained in t clocks at acceleration a
SpeedChange(a, t) == MulDiv(a, t, StepClockRate)

\* BasicPrepParams::SetFromDDA
SetFromDDA(p, d) ==
    [ accelDistance |-> d.accelDistance,
      decelStartDistance |-> d.totalDistance - d.decelDistance,
      accelClocks |-> ClocksFor(d.topSpeed - d.startSpeed, d.acceleration),
      decelClocks |-> ClocksFor(d.topSpeed - d.endSpeed, d.deceleration),
      steadyClocks |-> p.steadyClocks ]

\* BasicPrepParams::Finalise
Finalise(p, d) ==
    LET steadyDistance == p.decelStartDistance - p.accelDistance
    IN  [p EXCEPT !.steadyClocks =
            IF steadyDistance <= 0 THEN 0
            ELSE MulDiv(steadyDistance, StepClockRate \div 1000, d.topSpeed)]

----------------------------------------------------------------------------
(* The extra distances of a shaped phase *)

\* GetExtraAccelStartDistance from impulse seg (counted from 1) on, at speed u
RECURSIVE ExtraAccelStart(_, _, _, _)
ExtraAccelStart(sh, d, seg, u) ==
    IF seg > sh.numExtraImpulses THEN 0
    ELSE LET segTime == sh.durations[seg]
             speedChange == SpeedChange(MulDiv(sh.coefficients[seg], d.acceleration, U), segTime)
         IN  MulDiv(MulDiv(U - sh.coefficients[seg], (2 * u + speedChange) * 500, U),
                    segTime, StepClockRate)
             + ExtraAccelStart(sh, d, seg + 1, u + speedChange)

GetExtraAccelStartDistance(sh, d) == ExtraAccelStart(sh, d, 1, d.startSpeed)

\* GetExtraAccelEndDistance from impulse seg down, at speed v
RECURSIVE ExtraAccelEnd(_, _, _, _)
ExtraAccelEnd(sh, d, seg, v) ==
    IF seg < 1 THEN 0
    ELSE LET segTime == sh.durations[seg]
             speedChange == SpeedChange(MulDiv(U - sh.coefficients[seg], d.acceleration, U), segTime)
         IN  MulDiv(MulDiv(sh.coefficients[seg], (2 * v - speedChange) * 500, U),
                    segTime, StepClockRate)
             + ExtraAccelEnd(sh, d, seg - 1, v - speedChange)

GetExtraAccelEndDistance(sh, d) == ExtraAccelEnd(sh, d, sh.numExtraImpulses, d.topSpeed)

\* GetExtraDecelStartDistance from impulse seg on, at speed u
RECURSIVE ExtraDecelStart(_, _, _, _)
ExtraDecelStart(sh, d, seg, u) ==
    IF seg > sh.numExtraImpulses THEN 0
    ELSE LET segTime == sh.durations[seg]
             speedChange == SpeedChange(MulDiv(sh.coefficients[seg], d.deceleration, U), segTime)
         IN  MulDiv(MulDiv(U - sh.coefficients[seg], (2 * u - speedChange) * 500, U),
                    segTime, StepClockRate)
             + ExtraDecelStart(sh, d, seg + 1, u - speedChange)

GetExtraDecelStartDistance(sh, d) == ExtraDecelStart(sh, d, 1, d.topSpeed)

\* GetExtraDecelEndDistance from impulse seg down, at speed v
RECURSIVE ExtraDecelEnd(_, _, _, _)
ExtraDecelEnd(sh, d, seg, v) ==
    IF seg < 1 THEN 0
    ELSE LET segTime == sh.durations[seg]
             speedChange == SpeedChange(MulDiv(U - sh.coefficients[seg], d.deceleration, U), segTime)
         IN  MulDiv(MulDiv(sh.coefficients[seg], (2 * v + speedChange) * 500, U),
                    segTime, StepClockRate)
             + ExtraDecelEnd(sh, d, seg - 1, v + speedChange)

GetExtraDecelEndDistance(sh, d) == ExtraDecelEnd(sh, d, sh.numExtraImpulses, d.endSpeed)

----------------------------------------------------------------------------
(* PlanShaping, the impulse shapers: the plan asked for and what is feasible *)

\* a proposal that does not look at the previous move, for the sensitivity of C7
ProposeAccelStartAnyPrevious(sh, p, d) ==
    p.accelClocks + sh.clocksLostAtStart >= sh.totalShapingClocks

\* a proposal that does not look at the clocks, for the sensitivity of C10
ProposeAccelEndAnyClocks(sh, p, d) == p.decelStartDistance > p.accelDistance

ProposeAccelStart(sh, p, d) ==
    p.accelClocks + sh.clocksLostAtStart >= sh.totalShapingClocks /\ PreviousAllowsShaping(d)

ProposeAccelEnd(sh, p, d) ==
    p.accelClocks + sh.clocksLostAtEnd >= sh.totalShapingClocks
        /\ p.decelStartDistance > p.accelDistance

\* a proposal for the start of the deceleration that counts the clocks lost at
\* the end, for the sensitivity of C17
ProposeDecelStartLostAtEnd(sh, p, d) ==
    p.decelClocks + sh.clocksLostAtEnd >= sh.totalShapingClocks
        /\ p.decelStartDistance > p.accelDistance

ProposeDecelStart(sh, p, d) ==
    p.decelClocks + sh.clocksLostAtStart >= sh.totalShapingClocks
        /\ p.decelStartDistance > p.accelDistance

ProposeDecelEnd(sh, p, d) ==
    p.decelClocks + sh.clocksLostAtEnd >= sh.totalShapingClocks /\ NextAllowsShaping(d)

\* the plan PlanShaping would like
ProposedPlan(sh, p, d) ==
    [ ClearedPlan EXCEPT !.shapeAccelStart = ProposeAccelStart(sh, p, d),
                         !.shapeAccelEnd = ProposeAccelEnd(sh, p, d),
                         !.shapeDecelStart = ProposeDecelStart(sh, p, d),
                         !.shapeDecelEnd = ProposeDecelEnd(sh, p, d) ]

\* a planner without the rule for short phases, for the sensitivity of C9
TooShortForBothNever(sh, clocks) == FALSE

\* a phase of this many clocks is too short to shape both its start and its end
TooShortForBoth(sh, clocks) == clocks < 2 * sh.totalShapingClocks

\* a planner that skips the distance check, for the sensitivity of C1 and C8
ExtraDistanceFitsUnchecked(p, extraDistance) == TRUE

\* the extra distance fits between the acceleration and the deceleration
ExtraDistanceFits(p, extraDistance) ==
    p.accelDistance + extraDistance <= p.decelStartDistance

ExtraAccelDistance(sh, d, pl) ==
    (IF pl.shapeAccelStart THEN GetExtraAccelStartDistance(sh, d) ELSE 0)
    + (IF pl.shapeAccelEnd THEN GetExtraAccelEndDistance(sh, d) ELSE 0)

ExtraDecelDistance(sh, d, pl) ==
    (IF pl.shapeDecelStart THEN GetExtraDecelStartDistance(sh, d) ELSE 0)
    + (IF pl.shapeDecelEnd THEN GetExtraDecelEndDistance(sh, d) ELSE 0)

\* an acceleration step that keeps the extra distance of a shaping it drops,
\* for the sensitivity of C8
ShapeAccelerationKeepingExtra(sh, d, p, pl) ==
    IF ~(pl.shapeAccelStart \/ pl.shapeAccelEnd) THEN <<p, pl>>
    ELSE <<[p EXCEPT !.accelDistance = @ + ExtraAccelDistance(sh, d, pl)],
           [pl EXCEPT !.shapeAccelStart = FALSE, !.shapeAccelEnd = FALSE]>>

\* the acceleration shaping whose extra distance is extraAccelDistance: <<params, plan>>
AcceptAcceleration(sh, p, pl, extraAccelDistance) ==
    IF ExtraDistanceFits(p, extraAccelDistance)
    THEN << [p EXCEPT
               !.accelDistance = @ + extraAccelDistance,
               !.accelClocks = @ + (IF pl.shapeAccelStart THEN sh.clocksLostAtStart ELSE 0)
                                 + (IF pl.shapeAccelEnd THEN sh.clocksLostAtEnd ELSE 0)],
            pl >>
    ELSE <<p, [pl EXCEPT !.shapeAccelStart = FALSE, !.shapeAccelEnd = FALSE]>>

\* "See if we can shape the acceleration": <<params, plan>>
ShapeAcceleration(sh, d, p, pl) ==
    IF ~(pl.shapeAccelStart \/ pl.shapeAccelEnd) THEN <<p, pl>>
    ELSE IF pl.shapeAccelStart /\ pl.shapeAccelEnd /\ TooShortForBoth(sh, p.accelClocks)
    THEN <<p, [pl EXCEPT !.shapeAccelStart = FALSE, !.shapeAccelEnd = FALSE]>>
    ELSE AcceptAcceleration(sh, p, pl, ExtraAccelDistance(sh, d, pl))

\* the deceleration shaping whose extra distance is extraDecelDistance: <<params, plan>>
AcceptDeceleration(sh, p, pl, extraDecelDistance) ==
    IF ExtraDistanceFits(p, extraDecelDistance)
    THEN << [p EXCEPT
               !.decelStartDistance = @ - extraDecelDistance,
               !.decelClocks = @ + (IF pl.shapeDecelStart THEN sh.clocksLostAtStart ELSE 0)
                                 + (IF pl.shapeDecelEnd THEN sh.clocksLostAtEnd ELSE 0)],
            pl >>
    ELSE <<p, [pl EXCEPT !.shapeDecelStart = FALSE, !.shapeDecelEnd = FALSE]>>

\* "See if we can shape the deceleration": <<params, plan>>
ShapeDeceleration(sh, d, p, pl) ==
    IF ~(pl.shapeDecelStart \/ pl.shapeDecelEnd) THEN <<p, pl>>
    ELSE IF pl.shapeDecelStart /\ pl.shapeDecelEnd /\ TooShortForBoth(sh, p.decelClocks)
    THEN <<p, [pl EXCEPT !.shapeDecelStart = FALSE, !.shapeDecelEnd = FALSE]>>
    ELSE AcceptDeceleration(sh, p, pl, ExtraDecelDistance(sh, d, pl))

\* the params with the plan PlanShaping would like: <<params, plan>>
ProposalStep(sh, d, p) == <<p, ProposedPlan(sh, p, d)>>

\* the acceleration step on <<params, plan>>
AccelerationStep(sh, d, pp) == ShapeAcceleration(sh, d, pp[1], pp[2])

\* the deceleration step on <<params, plan>>
DecelerationStep(sh, d, pp) == ShapeDeceleration(sh, d, pp[1], pp[2])

\* the impulse arm of PlanShaping: <<params, plan>>
ImpulsePlan(sh, d, p0) ==
    DecelerationStep(sh, d, AccelerationStep(sh, d, ProposalStep(sh, d, SetFromDDA(p0, d))))

----------------------------------------------------------------------------
(* PlanShaping, the DAA arm *)

\* (v^2 - u^2)/(2a) in floats: 0/0 is no number
ProposedDistance(u, v, a) ==
    IF a = 0 THEN (IF v = u THEN NaN ELSE Inf) ELSE DistanceFor(u, v, a)

\* a + b <= c in floats: FALSE when a or b is no number
SumFits(a, b, c) == a # NaN /\ b # NaN /\ a # Inf /\ b # Inf /\ a + b <= c

\* a proposal of one ideal period for every phase shorter than two, for the
\* sensitivity of C13
ProposedPhaseOnePeriod(u, v, a, distance, idealPeriod) ==
    IF ClocksFor(v - u, a) < idealPeriod * 2
    THEN << MulDiv(v - u, StepClockRate, idealPeriod), TRUE,
            ProposedDistance(u, v, MulDiv(v - u, StepClockRate, idealPeriod)) >>
    ELSE <<a, FALSE, distance>>

\* what DAA proposes for the phase between speeds u and v that is now made at
\* acceleration a over distance: <<acceleration, adjust, distance>>
ProposedPhase(u, v, a, distance, idealPeriod) ==
    IF ClocksFor(v - u, a) < idealPeriod
    THEN << MulDiv(v - u, StepClockRate, idealPeriod), TRUE,
            ProposedDistance(u, v, MulDiv(v - u, StepClockRate, idealPeriod)) >>
    ELSE IF ClocksFor(v - u, a) < idealPeriod * 2
    THEN << MulDiv(v - u, StepClockRate, idealPeriod * 2), TRUE,
            ProposedDistance(u, v, MulDiv(v - u, StepClockRate, idealPeriod * 2)) >>
    ELSE <<a, FALSE, distance>>

\* x/fsquare(idealPeriod) halved, for a sum of distances x
OverPeriodSquared(x, idealPeriod) ==
    MulDiv(MulDiv(x, StepClockRate \div 1000, idealPeriod), StepClockRate, 2 * idealPeriod)

\* the move with the proposed top speed, acceleration and deceleration, or d
\* with broke set when a proposed value is out of bounds: <<move, broke>>
DaaTriangularCommit(sh, d, idealPeriod, proposedTopSpeed, proposedAcceleration, proposedDeceleration) ==
    IF proposedAcceleration < sh.minimumAcceleration
       \/ proposedDeceleration < sh.minimumAcceleration
       \/ proposedAcceleration > d.acceleration
       \/ proposedDeceleration > d.deceleration
    THEN <<d, TRUE>>
    ELSE << [d EXCEPT
               !.topSpeed = proposedTopSpeed,
               !.acceleration = proposedAcceleration,
               !.deceleration = proposedDeceleration,
               !.accelDistance =
                   SpeedTime(2 * d.startSpeed + SpeedChange(proposedAcceleration, idealPeriod),
                             idealPeriod),
               !.decelDistance =
                   SpeedTime(2 * d.endSpeed + SpeedChange(proposedDeceleration, idealPeriod),
                             idealPeriod)],
            FALSE >>

\* the move with acceleration and deceleration times of one ideal period each
DaaTriangular(sh, d, idealPeriod, proposedTopSpeed) ==
    DaaTriangularCommit(sh, d, idealPeriod, proposedTopSpeed,
        OverPeriodSquared(2 * d.totalDistance
                            - SpeedTime(2 * (3 * d.startSpeed + d.endSpeed), idealPeriod),
                          idealPeriod),
        OverPeriodSquared(2 * d.totalDistance
                            - SpeedTime(2 * (d.startSpeed + 3 * d.endSpeed), idealPeriod),
                          idealPeriod))

\* an acceleration-only move made without looking at minimumAcceleration, for
\* the sensitivity of C12
DaaAccelOnlyUnchecked(sh, d, proposedAcceleration) ==
    << [d EXCEPT !.acceleration = proposedAcceleration,
                 !.topSpeed = d.endSpeed,
                 !.accelDistance = d.totalDistance,
                 !.decelDistance = 0], FALSE >>

\* the move made acceleration-only at proposedAcceleration: <<move, broke>>
DaaAccelOnly(sh, d, proposedAcceleration) ==
    IF proposedAcceleration < sh.minimumAcceleration THEN <<d, TRUE>>
    ELSE << [d EXCEPT !.acceleration = proposedAcceleration,
                      !.topSpeed = d.endSpeed,
                      !.accelDistance = d.totalDistance,
                      !.decelDistance = 0], FALSE >>

\* a deceleration-only move that keeps the acceleration distance it had, for
\* the sensitivity of C21
DaaDecelOnlyKeepingAccel(sh, d, proposedDeceleration) ==
    IF proposedDeceleration < sh.minimumAcceleration THEN <<d, TRUE>>
    ELSE << [d EXCEPT !.deceleration = proposedDeceleration,
                      !.topSpeed = d.startSpeed,
                      !.decelDistance = d.totalDistance], FALSE >>

\* the move made deceleration-only at proposedDeceleration: <<move, broke>>
DaaDecelOnly(sh, d, proposedDeceleration) ==
    IF proposedDeceleration < sh.minimumAcceleration THEN <<d, TRUE>>
    ELSE << [d EXCEPT !.deceleration = proposedDeceleration,
                      !.topSpeed = d.startSpeed,
                      !.accelDistance = 0,
                      !.decelDistance = d.totalDistance], FALSE >>

\* the move when it cannot stay trapezoidal with its top speed, proposedTopSpeed
\* being the top speed of the triangular move: <<move, broke>>
DaaReshapeTo(sh, d, idealPeriod, proposedTopSpeed) ==
    IF proposedTopSpeed > d.startSpeed /\ proposedTopSpeed > d.endSpeed
    THEN DaaTriangular(sh, d, idealPeriod, proposedTopSpeed)
    ELSE IF d.startSpeed < d.endSpeed
    THEN DaaAccelOnly(sh, d, MulDiv((d.endSpeed + d.startSpeed) * 500,
                                    d.endSpeed - d.startSpeed, d.totalDistance))
    ELSE IF d.startSpeed > d.endSpeed
    THEN DaaDecelOnly(sh, d, MulDiv((d.startSpeed + d.endSpeed) * 500,
                                    d.startSpeed - d.endSpeed, d.totalDistance))
    ELSE <<d, TRUE>>

\* the move when it cannot stay trapezoidal with its top speed: <<move, broke>>
DaaReshape(sh, d, idealPeriod) ==
    DaaReshapeTo(sh, d, idealPeriod,
                 MulDiv(d.totalDistance, StepClockRate \div 1000, idealPeriod)
                    - (d.startSpeed + d.endSpeed) \div 2)

\* the DAA arm once both phases have their proposals acc and dec: <<move, broke>>
DaaDecide(sh, d, acc, dec) ==
    IF ~(acc[2] \/ dec[2]) THEN <<d, FALSE>>
    ELSE IF SumFits(acc[3], dec[3], d.totalDistance)
    THEN IF acc[1] < sh.minimumAcceleration \/ dec[1] < sh.minimumAcceleration
         THEN <<d, TRUE>>
         ELSE << [d EXCEPT !.acceleration = acc[1],
                           !.deceleration = dec[1],
                           !.accelDistance = acc[3],
                           !.decelDistance = dec[3]], FALSE >>
    ELSE DaaReshape(sh, d, sh.durations[1])

\* the DAA arm up to the end of its block: <<move, broke>>, broke when the arm
\* left the switch by a break
DaaAdjust(sh, d) ==
    DaaDecide(sh, d,
        IF d.topSpeed > d.startSpeed /\ PreviousAllowsShaping(d)
        THEN ProposedPhase(d.startSpeed, d.topSpeed, d.acceleration, d.accelDistance,
                           sh.durations[1])
        ELSE <<d.acceleration, FALSE, d.accelDistance>>,
        IF NextAllowsShaping(d)
        THEN ProposedPhase(d.endSpeed, d.topSpeed, d.deceleration, d.decelDistance,
                           sh.durations[1])
        ELSE <<d.deceleration, FALSE, d.decelDistance>>)

----------------------------------------------------------------------------
(* The segment chain.  A chain is the sequence of its segments, head first.  *)
(* A segment records which call made it (phase, part), whether it is linear, *)
(* the fraction of the total distance at which it ends, and its clocks.      *)

Segment(phase, part, linear, distance, total, clocks) ==
    [ phase |-> phase, part |-> part, linear |-> linear,
      fraction |-> MulDiv(distance, FracScale, total), clocks |-> clocks ]

\* end-shaping segments linked in the order the loop makes them, last impulse
\* first, for the sensitivity of C11
AddLastReversed(rest, seg) == <<<<seg>> \o rest[1], rest[2]>>

\* a chain with its first distance, and a segment put at its end
AddLast(rest, seg) == <<Append(rest[1], seg), rest[2]>>

\* a segment put before a chain with its last distance and speed
AddFirst(seg, rest) == <<<<seg>> \o rest[1], rest[2], rest[3]>>

\* the segments that shape the end of a phase, impulses 1..i, and the distance
\* at which they begin: <<chain, endDistance>>.  acc is the acceleration of the
\* phase, negative for a deceleration
RECURSIVE EndSegments(_, _, _, _, _, _, _)

\* impulse i of the end of a phase, in which the speed changes by dv, behind
\* the impulses before it
EndSegment(sh, phase, acc, total, i, segStartSpeed, endDistance, dv) ==
    AddLast(EndSegments(sh, phase, acc, total, i - 1, segStartSpeed - dv,
                        endDistance
                          - SpeedTime(2 * (segStartSpeed - dv) + dv, sh.durations[i])),
            Segment(phase, "end", FALSE, endDistance, total, sh.durations[i]))

EndSegments(sh, phase, acc, total, i, segStartSpeed, endDistance) ==
    IF i < 1 THEN <<<<>>, endDistance>>
    ELSE EndSegment(sh, phase, acc, total, i, segStartSpeed, endDistance,
                    SpeedChange(MulDiv(acc, U - sh.coefficients[i], U), sh.durations[i]))

\* the segments that shape the start of a phase, impulses i..n:
\* <<chain, startDistance, startSpeed>>
RECURSIVE StartSegments(_, _, _, _, _, _, _)

\* impulse i of the start of a phase, which ends at distance and in which the
\* speed changes by dv, before the impulses after it
StartSegment(sh, phase, acc, total, i, startSpeed, distance, dv) ==
    AddFirst(Segment(phase, "start", FALSE, distance, total, sh.durations[i]),
             StartSegments(sh, phase, acc, total, i + 1, startSpeed + dv, distance))

\* impulse i of the start of a phase, in which the speed changes by dv
StartSegmentBy(sh, phase, acc, total, i, startSpeed, startDistance, dv) ==
    StartSegment(sh, phase, acc, total, i, startSpeed,
                 startDistance + SpeedTime(2 * startSpeed + dv, sh.durations[i]), dv)

StartSegments(sh, phase, acc, total, i, startSpeed, startDistance) ==
    IF i > sh.numExtraImpulses THEN <<<<>>, startDistance, startSpeed>>
    ELSE StartSegmentBy(sh, phase, acc, total, i, startSpeed, startDistance,
                        SpeedChange(MulDiv(acc, sh.coefficients[i], U), sh.durations[i]))

\* the chain of a phase: the segments s that shape its start, the constant
\* acceleration segment if there is room for it, the segments e that shape its end
PhaseChain(phase, total, constClocks, s, e) ==
    s[1]
    \o (IF e[2] > s[2]
        THEN <<Segment(phase, "const", FALSE, e[2], total, constClocks)>>
        ELSE <<>>)
    \o e[1]

\* the segments of one phase that runs from firstDistance at firstSpeed to
\* lastDistance at lastSpeed in phaseClocks clocks
PhaseSegments(sh, phase, acc, total, shapeStart, shapeEnd, firstSpeed, firstDistance, lastSpeed, lastDistance, phaseClocks) ==
    PhaseChain(phase, total,
        phaseClocks - (IF shapeEnd THEN sh.totalDuration ELSE 0)
                    - (IF shapeStart THEN sh.totalDuration ELSE 0),
        IF shapeStart
        THEN StartSegments(sh, phase, acc, total, 1, firstSpeed, firstDistance)
        ELSE <<<<>>, firstDistance, firstSpeed>>,
        IF shapeEnd
        THEN EndSegments(sh, phase, acc, total, sh.numExtraImpulses, lastSpeed, lastDistance)
        ELSE <<<<>>, lastDistance>>)

\* GetAccelerationSegments: the chain (plan.accelSegments is its length)
GetAccelerationSegments(sh, d, p, pl) ==
    IF d.accelDistance > 0
    THEN PhaseSegments(sh, "accel", d.acceleration, d.totalDistance,
                       pl.shapeAccelStart, pl.shapeAccelEnd,
                       d.startSpeed, 0, d.topSpeed, p.accelDistance, p.accelClocks)
    ELSE <<>>

\* GetDecelerationSegments: the chain (plan.decelSegments is its length)
GetDecelerationSegments(sh, d, p, pl) ==
    IF d.decelDistance > 0
    THEN PhaseSegments(sh, "decel", 0 - d.deceleration, d.totalDistance,
                       pl.shapeDecelStart, pl.shapeDecelEnd,
                       d.topSpeed, p.decelStartDistance, d.endSpeed, d.totalDistance,
                       p.decelClocks)
    ELSE <<>>

\* a chain with the steady speed segment at its end, for the sensitivity of C3
FinishSegmentsSteadyLast(d, p, accelSegs, decelSegs) ==
    accelSegs
    \o decelSegs
    \o (IF p.steadyClocks > 0
        THEN <<Segment("steady", "", TRUE, p.decelStartDistance, d.totalDistance, p.steadyClocks)>>
        ELSE <<>>)

\* FinishSegments: the steady speed segment, if any, goes before the deceleration
FinishSegments(d, p, accelSegs, decelSegs) ==
    accelSegs
    \o (IF p.steadyClocks > 0
        THEN <<Segment("steady", "", TRUE, p.decelStartDistance, d.totalDistance, p.steadyClocks)>>
        ELSE <<>>)
    \o decelSegs

----------------------------------------------------------------------------
(* PlanShaping *)

ImpulseTypes == {"zvd", "zvdd", "ei2", "ei3"}

\* a switch that does not look at shapingEnabled, for the sensitivity of C4
SwitchCaseAlwaysEnabled(sh, shapingEnabled) ==
    IF sh.type = "daa" /\ SUPPORT_DAA THEN "daa"
    ELSE IF sh.type \in ImpulseTypes THEN "impulse"
    ELSE "none"

\* the case of the switch that PlanShaping takes
SwitchCase(sh, shapingEnabled) ==
    IF ~shapingEnabled THEN "none"
    ELSE IF sh.type = "daa" /\ SUPPORT_DAA THEN "daa"
    ELSE IF sh.type \in ImpulseTypes THEN "impulse"
    ELSE "none"

\* the end of the DAA arm, daa being what the adjuster gave: a break leaves
\* the switch, everything else falls into the unshaped arm
DaaArm(p0, daa) ==
    IF daa[2] THEN <<daa[1], p0, ClearedPlan>>
    ELSE <<daa[1], SetFromDDA(p0, daa[1]), ClearedPlan>>

\* the end of the impulse arm, imp being the params and the plan it made
ImpulseArm(d, imp) == <<d, imp[1], imp[2]>>

\* the switch of PlanShaping: <<move, params, plan>>
PlanSwitch(sh, d, p0, shapingEnabled) ==
    CASE SwitchCase(sh, shapingEnabled) = "daa" -> DaaArm(p0, DaaAdjust(sh, d))
      [] SwitchCase(sh, shapingEnabled) = "none" -> <<d, SetFromDDA(p0, d), ClearedPlan>>
      [] SwitchCase(sh, shapingEnabled) = "impulse" -> ImpulseArm(d, ImpulsePlan(sh, d, p0))

\* the move with its chain attached, the finalised params and the plan with
\* its segment counts
AttachSegments(d, p, pl, accelSegs, decelSegs) ==
    [ dda |-> [d EXCEPT !.axisSegments = FinishSegments(d, p, accelSegs, decelSegs)],
      params |-> p,
      plan |-> [pl EXCEPT !.accelSegments = Len(accelSegs),
                          !.decelSegments = Len(decelSegs)] ]

\* PlanShaping after the switch, sw being <<move, params, plan>>
BuildSegments(sh, sw) ==
    AttachSegments(sw[1], Finalise(sw[2], sw[1]), sw[3],
             GetAccelerationSegments(sh, sw[1], sw[2], sw[3]),
             GetDecelerationSegments(sh, sw[1], sw[2], sw[3]))

\* PlanShaping: the move with its chain attached, the params and the returned plan
PlanShapingResult(sh, d, p0, shapingEnabled) ==
    BuildSegments(sh, PlanSwitch(sh, d, p0, shapingEnabled))

----------------------------------------------------------------------------
(* The inputs: M593 commands, queued moves, and what the caller's params hold *)

\* the number of M593 commands a behaviour runs
MaxConfigures == 1

Command(f, l, s, p, h, t) == [F |-> f, L |-> l, S |-> s, P |-> p, H |-> h, T |-> t]

\* M593 P"..." alone, with a known name, an unknown name, or no P at all
TypeCommands ==
    { Command(NoArg, NoArg, NoArg, p, <<>>, <<>>) :
        p \in {"", "none", "daa", "zvd", "zvdd", "ei2", "ei3", "bogus"} }

\* M593 with L alone (um/s^2), and with F (Hz), S and a type
ParameterCommands ==
    { Command(NoArg, 2500 * 1000, NoArg, "", <<>>, <<>>),
      Command(50, NoArg, 0, "ei2", <<>>, <<>>),
      Command(40, NoArg, 0, "daa", <<>>, <<>>) }

\* M593 P"custom" with its H and T arrays
CustomCommands ==
    { Command(NoArg, NoArg, NoArg, "custom", ht[1], ht[2]) :
        ht \in { <<<<30000, 70000>>, <<>>>>,
                 <<<<20000, 50000, 80000>>, <<9000, 9000>>>> } }

Commands == TypeCommands \cup ParameterCommands \cup CustomCommands

\* the number of M593 commands in a sequence of commands
MaxSequence == 2

\* M593 with F and an unknown type, with L, S and an unknown type, with a
\* damping out of range behind a
\* valid F, with S alone at the upper limit, and P"custom" without H
FaultyCommands ==
    { Command(50, NoArg, NoArg, "bogus", <<>>, <<>>),
      Command(NoArg, 2500 * 1000, 0, "bogus", <<>>, <<>>),
      Command(50, NoArg, 150000, "", <<>>, <<>>),
      Command(NoArg, NoArg, NoArg, "custom", <<>>, <<>>) }

\* M593 with the damping at its upper limit 0.99 and near it, and custom
\* amplitudes that do not increase
SteepCommands ==
    { Command(NoArg, NoArg, s, p, <<>>, <<>>) :
        s \in {50000, 99000}, p \in {"zvd", "zvdd", "ei2", "ei3"} }
    \cup { Command(NoArg, NoArg, NoArg, "custom", <<70000, 30000>>, <<>>),
            Command(NoArg, NoArg, 10000, "", <<>>, <<>>) }

SequenceCommands == Commands \cup FaultyCommands \cup SteepCommands

\* speeds in um/s
StartSpeeds == {0, 70 * 1000}

TopSpeeds == {100 * 1000}

\* accelerations in um/s^2
Accelerations == {1000 * 1000, 3000 * 1000, 15000 * 1000}

\* the distance at steady speed, in nm
SteadyDistances == {0, 600 * 1000, 1200 * 1000, 5000 * 1000}

\* the previous move: its state and whether it was an acceleration-only move
Previous == { <<"completed", FALSE>>, <<"executing", TRUE>> }

\* the next move: its state and whether it is a deceleration move
Following == { <<"provisional", FALSE>>, <<"provisional", TRUE>> }

\* a queued move as DDA::Prepare hands it to PlanShaping
Move(u, v, w, a, b, steady, prev, next) ==
    [ startSpeed |-> u, topSpeed |-> v, endSpeed |-> w,
      acceleration |-> a, deceleration |-> b,
      totalDistance |-> DistanceFor(u, v, a) + steady + DistanceFor(w, v, b),
      accelDistance |-> DistanceFor(u, v, a), decelDistance |-> DistanceFor(w, v, b),
      prevState |-> prev[1], prevWasAccelOnlyMove |-> prev[2],
      nextState |-> next[1], nextIsDecelerationMove |-> next[2],
      axisSegments |-> <<>> ]

\* start and end speed, acceleration and deceleration of the queued moves
Profiles ==
    { <<0, 0, a, b>> : a \in Accelerations, b \in Accelerations }
    \cup { <<uw[1], uw[2], a, a>> :
              uw \in (StartSpeeds \X StartSpeeds) \ {<<0, 0>>}, a \in Accelerations }

\* a move of 20 mm from rest to 100 mm/s and back to rest at 3000 mm/s^2,
\* between idle neighbours
LongMove ==
    Move(0, 100 * 1000, 0, 3000 * 1000, 3000 * 1000, 16666668,
         <<"completed", FALSE>>, <<"provisional", FALSE>>)

Moves ==
    { Move(pr[1], v, pr[2], pr[3], pr[4], steady, prev, next) :
        pr \in Profiles, v \in TopSpeeds, steady \in SteadyDistances,
        prev \in Previous, next \in Following }
    \cup {LongMove}

\* what the caller's params may hold when PlanShaping is entered: they are a
\* local of the caller that nothing has assigned
CallerParams ==
    { [ accelDistance |-> 0, decelStartDistance |-> 0, accelClocks |-> 0,
        decelClocks |-> 0, steadyClocks |-> 0 ],
      [ accelDistance |-> 5000000, decelStartDistance |-> 3000000, accelClocks |-> 1234,
        decelClocks |-> 77, steadyClocks |-> 9 ],
      [ accelDistance |-> 0, decelStartDistance |-> 50000000, accelClocks |-> 40,
        decelClocks |-> 0, steadyClocks |-> 0 ] }

----------------------------------------------------------------------------
(* The state machine *)

Idle == [op |-> "idle"]

NoReply == [result |-> "none", moveUpdated |-> FALSE]

Init ==
    /\ shaper = Constructed
    /\ reply = NoReply
    /\ configures = 0
    /\ log = <<>>
    /\ call = Idle
    /\ dda = NoMove
    /\ params = NoParams
    /\ plan = NoPlan

\* what the log keeps of a Configure call that took the object from sh to r.shaper
Logged(cmd, sh, r) ==
    [ command |-> cmd, entry |-> sh, exit |-> r.shaper,
      result |-> r.result, moveUpdated |-> r.moveUpdated ]

\* M593.  The G-code processor runs it between the preparations of moves
Configured(cmd) ==
    /\ call = Idle
    /\ configures' = configures + 1
    /\ \E r \in {ConfigureResult(shaper, cmd)} :
          /\ shaper' = r.shaper
          /\ reply' = [result |-> r.result, moveUpdated |-> r.moveUpdated]
          /\ log' = Append(log, Logged(cmd, shaper, r))
    /\ UNCHANGED <<call, dda, params, plan>>

\* M593 between the preparations of moves, MaxConfigures times at most
Configure(cmd) ==
    /\ configures < MaxConfigures
    /\ Configured(cmd)

\* M593 in a sequence of M593 commands, MaxSequence commands at most
Reconfigure(cmd) ==
    /\ configures < MaxSequence
    /\ Configured(cmd)

\* DDA::Prepare calls PlanShaping for the next queued move
PlanShaping(m, p0, shapingEnabled) ==
    /\ call = Idle
    /\ call' = [op |-> "PlanShaping", move |-> m, shapingEnabled |-> shapingEnabled]
    /\ \E r \in {PlanShapingResult(shaper, m, p0, shapingEnabled)} :
          /\ dda' = r.dda
          /\ params' = r.params
          /\ plan' = r.plan
    /\ UNCHANGED <<shaper, reply, configures, log>>

\* the move completes and its segments go back to the pool
Complete ==
    /\ call # Idle
    /\ call' = Idle
    /\ dda' = NoMove
    /\ params' = NoParams
    /\ plan' = NoPlan
    /\ UNCHANGED <<shaper, reply, configures, log>>

Next ==
    \/ \E cmd \in Commands : Configure(cmd)
    \/ \E m \in Moves, p0 \in CallerParams, shapingEnabled \in BOOLEAN :
          PlanShaping(m, p0, shapingEnabled)
    \/ Complete

Spec == Init /\ [][Next]_vars

\* sequences of M593 commands with no move prepared in between
ConfigNext == \E cmd \in SequenceCommands : Reconfigure(cmd)

ConfigSpec == Init /\ [][ConfigNext]_vars

----------------------------------------------------------------------------
(* What a state records of the PlanShaping call that prepared its move *)

\* a PlanShaping call has returned and its move is prepared
Planned == call # Idle

\* the params SetFromDDA gives for the move as PlanShaping was handed it
Prepared == SetFromDDA(params, call.move)

AnyShapeFlag(pl) ==
    pl.shapeAccelStart \/ pl.shapeAccelEnd \/ pl.shapeDecelStart \/ pl.shapeDecelEnd

\* shaping is enabled and the type is one of the impulse shapers
ImpulseCall == Planned /\ call.shapingEnabled /\ shaper.type \in {"zvd", "zvdd", "ei2", "ei3"}

\* the clocks of all the segments of a chain
ChainClocks(chain) == SeqSum([i \in 1..Len(chain) |-> chain[i].clocks])

----------------------------------------------------------------------------
(* Properties of PlanShaping *)

\* C1: for an impulse shaper and a move prepared with accelDistance <=
\* decelStartDistance <= totalDistance, a returned plan with any shape flag set
\* comes with params.accelDistance <= params.decelStartDistance
C1_Feasibility ==
    ( /\ ImpulseCall
      /\ Prepared.accelDistance <= Prepared.decelStartDistance
      /\ Prepared.decelStartDistance <= call.move.totalDistance
      /\ AnyShapeFlag(plan) )
    => params.accelDistance <= params.decelStartDistance

\* C1 witness: both phases shaped, both extra distances applied
C1_Witness ==
    /\ ImpulseCall
    /\ plan.shapeAccelEnd /\ plan.shapeDecelStart
    /\ params.accelDistance > Prepared.accelDistance
    /\ params.decelStartDistance < Prepared.decelStartDistance
    /\ params.accelDistance <= params.decelStartDistance

\* C2: the clocks of the segments of the chain add up to accelClocks +
\* steadyClocks + decelClocks of the params after planning, within one clock
C2_TimeConservation ==
    Planned =>
        Abs(ChainClocks(dda.axisSegments)
            - (params.accelClocks + params.steadyClocks + params.decelClocks)) <= 1

\* C2 on the impulse path alone, where SetFromDDA has set the params
C2_ShapedTimeConservation ==
    ImpulseCall =>
        Abs(ChainClocks(dda.axisSegments)
            - (params.accelClocks + params.steadyClocks + params.decelClocks)) <= 1

\* the fractions of the segments of a chain, added up
ChainFractions(chain) == SeqSum([i \in 1..Len(chain) |-> chain[i].fraction])

ParamsInsideMove ==
    /\ 0 <= params.accelDistance
    /\ params.accelDistance <= params.decelStartDistance
    /\ params.decelStartDistance <= dda.totalDistance

\* the last segment of the chain of the prepared move
LastSegment == dda.axisSegments[Len(dda.axisSegments)]

PhaseRank(phase) == CASE phase = "accel" -> 1 [] phase = "steady" -> 2 [] phase = "decel" -> 3

\* a chain without shaped segments: at most one segment of each phase, in order
UnshapedChain(chain) ==
    /\ \A i \in 1..Len(chain) : chain[i].phase = "steady" \/ chain[i].part = "const"
    /\ \A i \in 1..Len(chain), j \in 1..Len(chain) :
          i < j => PhaseRank(chain[i].phase) < PhaseRank(chain[j].phase)

\* C4: with shaping disabled or type none, PlanShaping returns a zero plan,
\* leaves the move's speeds, accelerations and distances alone, leaves the params
\* as SetFromDDA made them, and attaches an unshaped chain
C4_UnshapedDispatch ==
    (Planned /\ (~call.shapingEnabled \/ shaper.type = "none")) =>
        /\ ~AnyShapeFlag(plan)
        /\ [dda EXCEPT !.axisSegments = <<>>] = call.move
        /\ params.accelDistance = Prepared.accelDistance
        /\ params.decelStartDistance = Prepared.decelStartDistance
        /\ params.accelClocks = Prepared.accelClocks
        /\ params.decelClocks = Prepared.decelClocks
        /\ UnshapedChain(dda.axisSegments)

\* C4 witness: an impulse shaper is configured, shaping is disabled for the
\* move, and the chain has its three unshaped segments
C4_Witness ==
    /\ Planned /\ ~call.shapingEnabled /\ shaper.type = "zvd"
    /\ Len(dda.axisSegments) = 3
    /\ UnshapedChain(dda.axisSegments)
    /\ ~AnyShapeFlag(plan)

\* the fields SetFromDDA assigns, in p
SetFields(p) == <<p.accelDistance, p.decelStartDistance, p.accelClocks, p.decelClocks>>

\* C5: for type daa with shaping enabled, on every path through the DAA code
\* params.SetFromDDA(dda) has run on the move as DAA left it, the plan has no
\* shape flag and the chain has no shaped segment
C5_DaaFallThrough ==
    (Planned /\ call.shapingEnabled /\ shaper.type = "daa") =>
        /\ SetFields(params) = SetFields(SetFromDDA(params, dda))
        /\ ~AnyShapeFlag(plan)
        /\ UnshapedChain(dda.axisSegments)

\* the plan the impulse path makes for the call's move
ImpulsePathPlan == ImpulsePlan(shaper, call.move, params)[2]

\* C6: with shaping enabled and type custom with at least one impulse, the
\* plan is the one the impulse path makes, and each phase with a flag set has
\* shaped segments
C6_CustomUsesImpulsePath ==
    (Planned /\ call.shapingEnabled /\ shaper.type = "custom" /\ shaper.numExtraImpulses >= 1) =>
        /\ plan.shapeAccelStart = ImpulsePathPlan.shapeAccelStart
        /\ plan.shapeAccelEnd = ImpulsePathPlan.shapeAccelEnd
        /\ plan.shapeDecelStart = ImpulsePathPlan.shapeDecelStart
        /\ plan.shapeDecelEnd = ImpulsePathPlan.shapeDecelEnd
        /\ AnyShapeFlag(ImpulsePathPlan) => ~UnshapedChain(dda.axisSegments)

\* the previous move does not stop the start of the acceleration being shaped
PreviousFree ==
    (call.move.prevState # "frozen" /\ call.move.prevState # "executing")
        \/ ~call.move.prevWasAccelOnlyMove

\* the next move does not stop the end of the deceleration being shaped
NextFree ==
    call.move.nextState # "provisional" \/ ~call.move.nextIsDecelerationMove

\* the unshaped move has a steady phase
HasSteadyPhase == Prepared.decelStartDistance > Prepared.accelDistance

\* C7: each flag of the returned plan implies its proposal condition on the
\* params as SetFromDDA set them: the clocks test, and free neighbours for
\* shapeAccelStart and shapeDecelEnd, a steady phase for shapeAccelEnd and
\* shapeDecelStart
C7_FlagsImplyProposal ==
    Planned =>
        /\ plan.shapeAccelStart =>
              /\ Prepared.accelClocks + shaper.clocksLostAtStart >= shaper.totalShapingClocks
              /\ PreviousFree
        /\ plan.shapeAccelEnd =>
              /\ Prepared.accelClocks + shaper.clocksLostAtEnd >= shaper.totalShapingClocks
              /\ HasSteadyPhase
        /\ plan.shapeDecelStart =>
              /\ Prepared.decelClocks + shaper.clocksLostAtStart >= shaper.totalShapingClocks
              /\ HasSteadyPhase
        /\ plan.shapeDecelEnd =>
              /\ Prepared.decelClocks + shaper.clocksLostAtEnd >= shaper.totalShapingClocks
              /\ NextFree

\* C7 witness: the acceleration is long enough to shape at both ends, the
\* previous move forbids shaping its start, and only its end is shaped
C7_Witness ==
    /\ ImpulseCall
    /\ ~PreviousFree
    /\ Prepared.accelClocks + shaper.clocksLostAtStart >= shaper.totalShapingClocks
    /\ plan.shapeAccelEnd /\ ~plan.shapeAccelStart

\* the plan proposed for the call's move
Proposal == ProposedPlan(shaper, Prepared, call.move)

\* params and plan after the acceleration step of the call
AfterAcceleration == ShapeAcceleration(shaper, call.move, Prepared, Proposal)

\* the proposed acceleration shaping does not fit in the move
AccelInfeasible ==
    /\ Proposal.shapeAccelStart \/ Proposal.shapeAccelEnd
    /\ Prepared.accelDistance + ExtraAccelDistance(shaper, call.move, Proposal)
          > Prepared.decelStartDistance

\* the proposed deceleration shaping does not fit in what the acceleration left
DecelInfeasible ==
    /\ Proposal.shapeDecelStart \/ Proposal.shapeDecelEnd
    /\ AfterAcceleration[1].accelDistance + ExtraDecelDistance(shaper, call.move, Proposal)
          > AfterAcceleration[1].decelStartDistance

\* the deceleration step on the move with its acceleration unshaped
DecelAlone ==
    ShapeDeceleration(shaper, call.move, Prepared,
                      [Proposal EXCEPT !.shapeAccelStart = FALSE, !.shapeAccelEnd = FALSE])

\* C8: an acceleration shaping that does not fit is dropped, accelDistance and
\* accelClocks stay as SetFromDDA set them, and the deceleration is decided as
\* for the same move with its acceleration unshaped; a deceleration shaping
\* that does not fit is dropped, decelStartDistance and decelClocks stay, and
\* an accepted acceleration shaping stays
C8_RejectedPhaseLeavesOther ==
    ImpulseCall =>
        /\ AccelInfeasible =>
              /\ ~plan.shapeAccelStart /\ ~plan.shapeAccelEnd
              /\ params.accelDistance = Prepared.accelDistance
              /\ params.accelClocks = Prepared.accelClocks
              /\ plan.shapeDecelStart = DecelAlone[2].shapeDecelStart
              /\ plan.shapeDecelEnd = DecelAlone[2].shapeDecelEnd
              /\ params.decelStartDistance = DecelAlone[1].decelStartDistance
              /\ params.decelClocks = DecelAlone[1].decelClocks
        /\ DecelInfeasible =>
              /\ ~plan.shapeDecelStart /\ ~plan.shapeDecelEnd
              /\ params.decelStartDistance = Prepared.decelStartDistance
              /\ params.decelClocks = Prepared.decelClocks
              /\ plan.shapeAccelStart = AfterAcceleration[2].shapeAccelStart
              /\ plan.shapeAccelEnd = AfterAcceleration[2].shapeAccelEnd
              /\ params.accelDistance = AfterAcceleration[1].accelDistance
              /\ params.accelClocks = AfterAcceleration[1].accelClocks

\* C8 witness: the acceleration shaping does not fit and is dropped, the
\* deceleration shaping fits and is kept
C8_Witness ==
    /\ ImpulseCall
    /\ AccelInfeasible
    /\ ~(Proposal.shapeAccelStart /\ Proposal.shapeAccelEnd
         /\ Prepared.accelClocks < 2 * shaper.totalShapingClocks)
    /\ ~plan.shapeAccelStart /\ ~plan.shapeAccelEnd
    /\ plan.shapeDecelStart \/ plan.shapeDecelEnd
    /\ params.decelStartDistance < Prepared.decelStartDistance

\* C9: when both ends of a phase are proposed and the phase lasts less than
\* twice totalShapingClocks, neither end is shaped and the params of the phase
\* stay; so both flags of a phase are set only if the phase lasted at least
\* twice totalShapingClocks before shaping
C9_BothEndsTooShort ==
    ImpulseCall =>
        /\ ( /\ Proposal.shapeAccelStart /\ Proposal.shapeAccelEnd
             /\ Prepared.accelClocks < 2 * shaper.totalShapingClocks )
           => /\ ~plan.shapeAccelStart /\ ~plan.shapeAccelEnd
              /\ params.accelDistance = Prepared.accelDistance
              /\ params.accelClocks = Prepared.accelClocks
        /\ ( /\ Proposal.shapeDecelStart /\ Proposal.shapeDecelEnd
             /\ Prepared.decelClocks < 2 * shaper.totalShapingClocks )
           => /\ ~plan.shapeDecelStart /\ ~plan.shapeDecelEnd
              /\ params.decelStartDistance = Prepared.decelStartDistance
              /\ params.decelClocks = Prepared.decelClocks
        /\ (plan.shapeAccelStart /\ plan.shapeAccelEnd)
           => Prepared.accelClocks >= 2 * shaper.totalShapingClocks
        /\ (plan.shapeDecelStart /\ plan.shapeDecelEnd)
           => Prepared.decelClocks >= 2 * shaper.totalShapingClocks

\* C9 witness: both ends of the acceleration are proposed, it is too short for
\* both, shaping its start alone would fit, and neither end is shaped
C9_Witness ==
    /\ ImpulseCall
    /\ Proposal.shapeAccelStart /\ Proposal.shapeAccelEnd
    /\ Prepared.accelClocks < 2 * shaper.totalShapingClocks
    /\ Prepared.accelDistance + GetExtraAccelStartDistance(shaper, call.move)
          <= Prepared.decelStartDistance
    /\ ~plan.shapeAccelStart /\ ~plan.shapeAccelEnd

\* C10 as stated: a move whose accelClocks is less than totalShapingClocks +
\* clocksLostAtStart has neither end of its acceleration shaped
C10_ShortAccelUnshaped ==
    (ImpulseCall /\ Prepared.accelClocks < shaper.totalShapingClocks + shaper.clocksLostAtStart)
    => (~plan.shapeAccelStart /\ ~plan.shapeAccelEnd)

\* C10 amended: a move with accelClocks + clocksLostAtStart and accelClocks +
\* clocksLostAtEnd both less than totalShapingClocks has neither end of its
\* acceleration shaped
C10_BelowBothThresholds ==
    ( /\ ImpulseCall
      /\ Prepared.accelClocks + shaper.clocksLostAtStart < shaper.totalShapingClocks
      /\ Prepared.accelClocks + shaper.clocksLostAtEnd < shaper.totalShapingClocks )
    => (~plan.shapeAccelStart /\ ~plan.shapeAccelEnd)

\* C10 witness: only the clocks keep the acceleration from being shaped: the
\* previous move is free and there is a steady phase
C10_Witness ==
    /\ ImpulseCall
    /\ Prepared.accelClocks + shaper.clocksLostAtStart < shaper.totalShapingClocks
    /\ Prepared.accelClocks + shaper.clocksLostAtEnd < shaper.totalShapingClocks
    /\ PreviousFree /\ HasSteadyPhase
    /\ ~plan.shapeAccelStart /\ ~plan.shapeAccelEnd
    /\ plan.shapeDecelStart

----------------------------------------------------------------------------
(* The order of the chain *)

\* the place of a segment in a chain: start, constant and end part of the
\* acceleration, the steady speed segment, then the same parts of the deceleration
GroupRank(seg) ==
    CASE seg.phase = "accel" /\ seg.part = "start" -> 1
      [] seg.phase = "accel" /\ seg.part = "const" -> 2
      [] seg.phase = "accel" /\ seg.part = "end" -> 3
      [] seg.phase = "steady" -> 4
      [] seg.phase = "decel" /\ seg.part = "start" -> 5
      [] seg.phase = "decel" /\ seg.part = "const" -> 6
      [] seg.phase = "decel" /\ seg.part = "end" -> 7

\* the segments of a chain that have rank r, in the order of the chain
RECURSIVE Group(_, _)
Group(chain, r) ==
    IF chain = <<>> THEN <<>>
    ELSE IF GroupRank(Head(chain)) = r THEN <<Head(chain)>> \o Group(Tail(chain), r)
    ELSE Group(Tail(chain), r)

\* the group is empty, or has one segment for each impulse, in the order of
\* the impulses, each lasting as long as its impulse
ImpulseGroup(g) ==
    g = <<>> \/ ( /\ Len(g) = shaper.numExtraImpulses
                  /\ \A i \in 1..Len(g) : g[i].clocks = shaper.durations[i] )

\* C11: the chain lists the accel-start segments for impulses 0..n-1, the
\* constant acceleration segment, the accel-end segments for impulses 0..n-1,
\* the steady speed segment, the decel-start segments, the constant
\* deceleration segment and the decel-end segments, each shaped group only
\* with its flag; the steady speed segment is there exactly when
\* params.steadyClocks > 0 and comes just before the first deceleration segment
C11_ChainOrder ==
    Planned =>
        /\ \A i \in 1..Len(dda.axisSegments), j \in 1..Len(dda.axisSegments) :
              i < j => GroupRank(dda.axisSegments[i]) <= GroupRank(dda.axisSegments[j])
        /\ \A r \in {2, 4, 6} : Len(Group(dda.axisSegments, r)) <= 1
        /\ \A r \in {1, 3, 5, 7} : ImpulseGroup(Group(dda.axisSegments, r))
        /\ (Group(dda.axisSegments, 1) # <<>>) = (plan.shapeAccelStart /\ dda.accelDistance > 0)
        /\ (Group(dda.axisSegments, 3) # <<>>) = (plan.shapeAccelEnd /\ dda.accelDistance > 0)
        /\ (Group(dda.axisSegments, 5) # <<>>) = (plan.shapeDecelStart /\ dda.decelDistance > 0)
        /\ (Group(dda.axisSegments, 7) # <<>>) = (plan.shapeDecelEnd /\ dda.decelDistance > 0)
        /\ (Group(dda.axisSegments, 4) # <<>>) = (params.steadyClocks > 0)
        /\ \A i \in 1..Len(dda.axisSegments) :
              (dda.axisSegments[i].phase = "steady" /\ i < Len(dda.axisSegments))
                  => dda.axisSegments[i + 1].phase = "decel"

\* C11 witness: an ei3 chain with every group in it: the end of the
\* acceleration and the start of the deceleration shaped, impulses of
\* different lengths, both constant segments and the steady speed segment
C11_Witness ==
    /\ ImpulseCall /\ shaper.type = "ei3"
    /\ shaper.durations[1] # shaper.durations[4]
    /\ plan.shapeAccelEnd /\ plan.shapeDecelStart
    /\ Len(Group(dda.axisSegments, 3)) = 4
    /\ Len(Group(dda.axisSegments, 5)) = 4
    /\ Len(dda.axisSegments) = 11

----------------------------------------------------------------------------
(* Properties of the DAA arm *)

\* PlanShaping took the DAA arm for the call's move
DaaCall == Planned /\ call.shapingEnabled /\ shaper.type = "daa"

\* C12: after PlanShaping with type daa, an acceleration that differs from
\* its value on entry is at least minimumAcceleration, and so is a
\* deceleration that differs from its value on entry
C12_DaaFloor ==
    DaaCall =>
        /\ dda.acceleration # call.move.acceleration
              => dda.acceleration >= shaper.minimumAcceleration
        /\ dda.deceleration # call.move.deceleration
              => dda.deceleration >= shaper.minimumAcceleration

\* C12 witness: with the floor raised by M593 L, DAA made the move
\* acceleration-only at a new acceleration above the floor
C12_Witness ==
    /\ DaaCall
    /\ shaper.minimumAcceleration > DefaultMinimumAcceleration
    /\ dda.acceleration # call.move.acceleration
    /\ dda.decelDistance = 0 /\ call.move.decelDistance > 0
    /\ dda.acceleration >= shaper.minimumAcceleration

\* the ringing period T of the DAA shaper, in clocks
RingingPeriod == shaper.durations[1]

\* accelTime and decelTime of the call's move, in clocks
AccelTime == ClocksFor(call.move.topSpeed - call.move.startSpeed, call.move.acceleration)

DecelTime == ClocksFor(call.move.topSpeed - call.move.endSpeed, call.move.deceleration)

\* the speed change dv made in t clocks
RateFor(dv, t) == MulDiv(dv, StepClockRate, t)

\* the acceleration C13 says is proposed: one period needs a free previous
\* move, two periods are proposed whatever the previous move does
StatedAcceleration ==
    IF AccelTime < RingingPeriod /\ PreviousFree
    THEN RateFor(call.move.topSpeed - call.move.startSpeed, RingingPeriod)
    ELSE IF AccelTime < 2 * RingingPeriod
    THEN RateFor(call.move.topSpeed - call.move.startSpeed, 2 * RingingPeriod)
    ELSE call.move.acceleration

\* the acceleration proposed when the previous move guards both proposals
GuardedAcceleration ==
    IF ~(call.move.topSpeed > call.move.startSpeed /\ PreviousFree)
    THEN call.move.acceleration
    ELSE IF AccelTime < RingingPeriod
    THEN RateFor(call.move.topSpeed - call.move.startSpeed, RingingPeriod)
    ELSE IF AccelTime < 2 * RingingPeriod
    THEN RateFor(call.move.topSpeed - call.move.startSpeed, 2 * RingingPeriod)
    ELSE call.move.acceleration

\* the deceleration proposed, guarded by the next move
GuardedDeceleration ==
    IF ~NextFree THEN call.move.deceleration
    ELSE IF DecelTime < RingingPeriod
    THEN RateFor(call.move.topSpeed - call.move.endSpeed, RingingPeriod)
    ELSE IF DecelTime < 2 * RingingPeriod
    THEN RateFor(call.move.topSpeed - call.move.endSpeed, 2 * RingingPeriod)
    ELSE call.move.deceleration

\* the distance of the phase between speeds u and v when its rate a becomes b
DistanceAt(u, v, a, b, distance) == IF b = a THEN distance ELSE DistanceFor(u, v, b)

\* the proposal with acceleration a and deceleration b changes something, its
\* distances fit in the move and neither value is below the floor
Committable(a, b) ==
    /\ a # call.move.acceleration \/ b # call.move.deceleration
    /\ a >= shaper.minimumAcceleration /\ b >= shaper.minimumAcceleration
    /\ DistanceAt(call.move.startSpeed, call.move.topSpeed, call.move.acceleration, a,
                  call.move.accelDistance)
         + DistanceAt(call.move.endSpeed, call.move.topSpeed, call.move.deceleration, b,
                      call.move.decelDistance)
         <= call.move.totalDistance

\* C13 as stated: the acceleration proposed is (topSpeed - startSpeed)/T if
\* accelTime < T and the previous move is free, otherwise (topSpeed -
\* startSpeed)/(2T) if accelTime < 2T whatever the previous move does, and a
\* proposal that fits and respects the floor is committed
C13_ProposalAsStated ==
    (DaaCall /\ Committable(StatedAcceleration, GuardedDeceleration)) =>
        /\ dda.acceleration = StatedAcceleration
        /\ dda.deceleration = GuardedDeceleration

\* C13 amended: a new acceleration is proposed only if topSpeed > startSpeed
\* and the previous move is free, for one period as for two; a proposal that
\* fits and respects the floor is committed with its distances
C13_GuardedProposal ==
    (DaaCall /\ Committable(GuardedAcceleration, GuardedDeceleration)) =>
        /\ dda.acceleration = GuardedAcceleration
        /\ dda.deceleration = GuardedDeceleration
        /\ dda.topSpeed = call.move.topSpeed
        /\ dda.accelDistance =
              DistanceAt(call.move.startSpeed, call.move.topSpeed, call.move.acceleration,
                         GuardedAcceleration, call.move.accelDistance)
        /\ dda.decelDistance =
              DistanceAt(call.move.endSpeed, call.move.topSpeed, call.move.deceleration,
                         GuardedDeceleration, call.move.decelDistance)

\* C13 witness: M593 P"daa" F40 S0 and the move of 20 mm from rest to 100 mm/s
\* and back at 3000 mm/s^2 end with acceleration and deceleration 2000 mm/s^2
C13_Witness ==
    /\ DaaCall /\ shaper.frequency = 40 /\ shaper.zeta = 0
    /\ call.move = LongMove
    /\ call.move.totalDistance = 20 * 1000 * 1000
    /\ AccelTime >= RingingPeriod /\ AccelTime < 2 * RingingPeriod
    /\ dda.acceleration = 2000 * 1000 /\ dda.deceleration = 2000 * 1000

----------------------------------------------------------------------------
(* Symmetric moves *)

\* an impulse shaper plans a move with equal start and end speeds, equal
\* acceleration and deceleration, and neighbours that block no shaping
SymmetricCall ==
    /\ ImpulseCall
    /\ call.move.startSpeed = call.move.endSpeed
    /\ call.move.acceleration = call.move.deceleration
    /\ PreviousFree /\ NextFree

\* C17 as stated: for a symmetric move the plan has shapeAccelStart =
\* shapeDecelEnd and shapeAccelEnd = shapeDecelStart
C17_MirrorSymmetry ==
    SymmetricCall =>
        /\ plan.shapeAccelStart = plan.shapeDecelEnd
        /\ plan.shapeAccelEnd = plan.shapeDecelStart

\* the shapings proposed for both phases fit together in the steady phase
BothExtrasFit ==
    Prepared.accelDistance + ExtraAccelDistance(shaper, call.move, Proposal)
        + ExtraDecelDistance(shaper, call.move, Proposal)
    <= Prepared.decelStartDistance

\* C17 amended: for a symmetric move with a steady phase the two phases are
\* treated alike side by side, not mirrored: shapeAccelStart and
\* shapeDecelStart rest on the same clocks test, and so do shapeAccelEnd and
\* shapeDecelEnd; when the proposed shapings of both phases fit together the
\* plan has shapeAccelStart = shapeDecelStart and shapeAccelEnd = shapeDecelEnd
C17_SameSideSymmetry ==
    (SymmetricCall /\ HasSteadyPhase) =>
        /\ Prepared.accelClocks = Prepared.decelClocks
        /\ plan.shapeAccelStart =>
              Prepared.decelClocks + shaper.clocksLostAtStart >= shaper.totalShapingClocks
        /\ plan.shapeDecelStart =>
              Prepared.accelClocks + shaper.clocksLostAtStart >= shaper.totalShapingClocks
        /\ plan.shapeAccelEnd =>
              Prepared.decelClocks + shaper.clocksLostAtEnd >= shaper.totalShapingClocks
        /\ plan.shapeDecelEnd =>
              Prepared.accelClocks + shaper.clocksLostAtEnd >= shaper.totalShapingClocks
        /\ BothExtrasFit =>
              /\ plan.shapeAccelStart = plan.shapeDecelStart
              /\ plan.shapeAccelEnd = plan.shapeDecelEnd

\* C17 witness: a symmetric move whose phases are long enough to shape the
\* start but not the end: both starts are shaped, neither end is
C17_Witness ==
    /\ SymmetricCall /\ HasSteadyPhase /\ BothExtrasFit
    /\ shaper.clocksLostAtStart # shaper.clocksLostAtEnd
    /\ plan.shapeAccelStart /\ plan.shapeDecelStart
    /\ ~plan.shapeAccelEnd /\ ~plan.shapeDecelEnd

-----------------------------------------------------------------------------
(* C14: the types without impulses *)

\* C14: in every state reached from the constructor by a sequence of
\* Configure calls, a stored type of none or daa has numExtraImpulses = 0
C14_NoImpulsesForNoneAndDaa ==
    shaper.type \in {"none", "daa"} => shaper.numExtraImpulses = 0

-----------------------------------------------------------------------------
(* C15: the default type over sequences of commands *)

\* the call read F, L or S without an exception and the command has no P
ParametersOnly(e) ==
    /\ e.command.P = ""
    /\ e.command.F # NoArg \/ e.command.L # NoArg \/ e.command.S # NoArg
    /\ e.result # "exception"

\* the call accepted the P of its command as the new type
TypeAccepted(e) ==
    /\ e.command.P # ""
    /\ IsValid(e.command.P)
    /\ ~ReadFLS(e.entry, e.command)[3]

\* a call before the i-th one accepted a P
TypeEverSet(i) == \E j \in 1..(i - 1) : TypeAccepted(log[j])

\* C15: a command with F, L or S and no P sets the default type (daa on a
\* build with DAA, else zvd) when no type was ever set, and keeps the type
\* once an earlier command had its P accepted, P"none" included
C15_DefaultTypeRule ==
    \A i \in 1..Len(log) :
        ParametersOnly(log[i]) =>
            IF TypeEverSet(i)
            THEN log[i].exit.type = log[i].entry.type
            ELSE log[i].exit.type = (IF SUPPORT_DAA THEN "daa" ELSE "zvd")

-----------------------------------------------------------------------------
(* C16: a changed configuration is synthesised and announced *)

\* the values Configure stores from its parameters
Stored(sh) ==
    <<sh.frequency, sh.zeta, sh.minimumAcceleration, sh.type, sh.coefficients, sh.durations>>

\* the number of impulses the switch on the type gives; for custom it is
\* the number of amplitudes of the command
ImpulsesOf(sh) ==
    CASE sh.type \in {"none", "daa"} -> 0
      [] sh.type = "zvd" -> 2
      [] sh.type \in {"zvdd", "ei2"} -> 3
      [] sh.type = "ei3" -> 4
      [] OTHER -> sh.numExtraImpulses

\* the derived values of sh are those Configure computes from its stored ones
Synthesised(sh) ==
    /\ sh.numExtraImpulses = ImpulsesOf(sh)
    /\ sh.totalDuration = SetTotals(sh).totalDuration
    /\ sh.clocksLostAtStart = SetTotals(sh).clocksLostAtStart
    /\ sh.clocksLostAtEnd = SetTotals(sh).clocksLostAtEnd
    /\ sh.totalShapingClocks = SetTotals(sh).totalShapingClocks

\* the command has none of F, L, S and P
NoLetters(cmd) ==
    cmd.F = NoArg /\ cmd.L = NoArg /\ cmd.S = NoArg /\ cmd.P = ""

\* C16: a Configure call that returns with frequency, damping,
\* minAcceleration, type, coefficients or durations changed has recomputed
\* the derived values from them and has called MoveUpdated; a call with none
\* of F, L, S and P changes nothing and does not call MoveUpdated
C16_ChangeSynthesisedAndAnnounced ==
    \A i \in 1..Len(log) :
        /\ Stored(log[i].exit) # Stored(log[i].entry) =>
               log[i].moveUpdated /\ Synthesised(log[i].exit)
        /\ NoLetters(log[i].command) =>
               log[i].exit = log[i].entry /\ ~log[i].moveUpdated

-----------------------------------------------------------------------------
(* C18: the coefficients after synthesis *)

\* the call synthesised a shaper with impulses
SynthesisedImpulses(e) ==
    e.result = "ok" /\ e.moveUpdated /\ e.exit.numExtraImpulses >= 1

\* the first n coefficients of sh increase strictly and lie strictly between 0 and 1
IncreasingInUnitInterval(sh) ==
    /\ \A i \in 1..sh.numExtraImpulses : sh.coefficients[i] > 0 /\ sh.coefficients[i] < U
    /\ \A i \in 1..(sh.numExtraImpulses - 1) : sh.coefficients[i] < sh.coefficients[i + 1]

\* C18: after every successful synthesis of a shaper with impulses, at every
\* accepted damping, coefficients[0..numExtraImpulses-1] is strictly
\* increasing and every value lies strictly between 0 and 1
C18_CoefficientsIncreasing ==
    \A i \in 1..Len(log) :
        SynthesisedImpulses(log[i]) => IncreasingInUnitInterval(log[i].exit)

-----------------------------------------------------------------------------
(* C19: the total duration *)

\* the sum of durations[0..numExtraImpulses-1], in step clocks
DurationsSum(sh) == SeqSum([i \in 1..sh.numExtraImpulses |-> sh.durations[i]])

\* C19: after every successful synthesis totalDuration is the sum of all
\* numExtraImpulses durations, and totalShapingClocks is that sum in step clocks
C19_TotalDurationIsSum ==
    \A i \in 1..Len(log) :
        (log[i].result = "ok" /\ log[i].moveUpdated) =>
            /\ log[i].exit.totalDuration = DurationsSum(log[i].exit)
            /\ log[i].exit.totalShapingClocks = DurationsSum(log[i].exit)

-----------------------------------------------------------------------------
(* C20: the table for shaping the start and at once the end *)

\* the 2n entries of the stored table
OverlappedTable(sh) ==
    [i \in 1..(2 * sh.numExtraImpulses) |-> sh.overlappedCoefficients[i]]

\* the entries of the table are finite, in (0, 1], and the largest is 1
Normalised(table) ==
    /\ \A i \in 1..Len(table) : IsFinite(table[i]) /\ table[i] > 0 /\ table[i] <= U
    /\ \E i \in 1..Len(table) : table[i] = U

\* C20: after the synthesis of a shaper with n >= 1 impulses the 2n entries
\* of overlappedCoefficients are scaled by 1/(their maximum): the largest
\* stored entry is 1 and every entry is finite and in (0, 1]
C20_OverlappedNormalised ==
    \A i \in 1..Len(log) :
        SynthesisedImpulses(log[i]) => Normalised(OverlappedTable(log[i].exit))

-----------------------------------------------------------------------------
(* C21: the geometry of the move after DAA *)

\* DAA gave the move a new top speed: it made it triangular,
\* acceleration-only or deceleration-only
DaaReshaped == DaaCall /\ dda.topSpeed # call.move.topSpeed

\* accelDistance + decelDistance of the move after PlanShaping, less totalDistance
DaaExcess == dda.accelDistance + dda.decelDistance - dda.totalDistance

DaaTriangularMove == DaaReshaped /\ dda.accelDistance > 0 /\ dda.decelDistance > 0

\* DAA made the move acceleration-only or deceleration-only
DaaOneSidedMove == DaaReshaped /\ (dda.accelDistance = 0 \/ dda.decelDistance = 0)

\* the rounding of the two distances of a triangular move, in nm
DistanceRounding == 32

-----------------------------------------------------------------------------
(* C22: a Configure call that fails on the type name *)

\* the call returned the error for an unknown type name
UnknownTypeError(e) ==
    /\ e.result = "error"
    /\ e.command.P # ""
    /\ ~IsValid(e.command.P)

\* C22: when Configure returns the error for an unknown type name, every
\* field of the shaper has the value it had before the call, also when the
\* command carried F, L or S
C22_UnknownTypeChangesNothing ==
    \A i \in 1..Len(log) :
        UnknownTypeError(log[i]) => log[i].exit = log[i].entry

====
